---- MODULE Spec2Model ----
(***************************************************************************)
(* Model of src/app.py: the POST /analyze_contracts/ endpoint, its spend   *)
(* extractor, the contract scan / discount aggregation loop, the ranking   *)
(* and the response formatter.                                             *)
(*                                                                         *)
(* Modelling conventions                                                   *)
(*  - Python strings that the code takes apart (file names) are sequences  *)
(*    of one-character strings.                                            *)
(*  - A Python float is a record [nan, n, d]: either NaN or the rational   *)
(*    n/d in lowest terms (d > 0).  Arithmetic is exact; binary rounding   *)
(*    of floats is not modelled.                                           *)
(*  - tolerance is carried in whole percent (10 stands for 0.1), so that   *)
(*    target*(1 - tolerance) is the rational target*(100 - 10)/100.        *)
(*  - A Python dict is a sequence of entries in insertion order.           *)
(*  - os.listdir and DataFrame.iterrows are read lazily: each loop step    *)
(*    draws the next directory entry or the next row.                      *)
(*  - sorted, min, max and statistics.mean follow CPython (list.sort on    *)
(*    fewer than 64 items: count_run, then binarysort), so that lists      *)
(*    holding NaN come out as Python leaves them.                          *)
(*  - One request is followed from its arrival to its response; the        *)
(*    handler keeps nothing between requests.                              *)
(***************************************************************************)
EXTENDS Integers, Sequences, FiniteSets, TLC

\* Directory entries listed in one request.
MaxFiles == 2
\* Spreadsheet rows iterated in one request (over all contract files read).
MaxRows == 2

(***************************************************************************)
(* Strings                                                                 *)
(***************************************************************************)
XLSX == <<".", "x", "l", "s", "x">>

Digits == <<"0", "1", "2", "3", "4", "5", "6", "7", "8", "9">>

IsDigit(c) == \E i \in 1..Len(Digits) : Digits[i] = c

DigitVal(c) == (CHOOSE i \in 1..Len(Digits) : Digits[i] = c) - 1

\* str.endswith(suffix)
EndsWith(s, suffix) ==
    /\ Len(s) >= Len(suffix)
    /\ SubSeq(s, Len(s) - Len(suffix) + 1, Len(s)) = suffix

StartsWith(s, prefix) ==
    /\ Len(s) >= Len(prefix)
    /\ SubSeq(s, 1, Len(prefix)) = prefix

RECURSIVE Split(_, _)
\* str.split(sep) for a one-character separator: the list of tokens.
Split(s, sep) ==
    IF \A i \in 1..Len(s) : s[i] # sep
    THEN <<s>>
    ELSE LET k == CHOOSE i \in 1..Len(s) :
                      /\ s[i] = sep
                      /\ \A j \in 1..(i - 1) : s[j] # sep
         IN  <<SubSeq(s, 1, k - 1)>> \o Split(SubSeq(s, k + 1, Len(s)), sep)

RECURSIVE Remove(_, _)
\* str.replace(old, ''): every non-overlapping occurrence of old removed,
\* scanning from the left.
Remove(s, old) ==
    IF Len(s) = 0 THEN <<>>
    ELSE IF StartsWith(s, old)
         THEN Remove(SubSeq(s, Len(old) + 1, Len(s)), old)
         ELSE <<s[1]>> \o Remove(SubSeq(s, 2, Len(s)), old)

RECURSIVE DecimalValue(_)
DecimalValue(s) ==
    IF Len(s) = 0 THEN 0
    ELSE 10 * DecimalValue(SubSeq(s, 1, Len(s) - 1)) + DigitVal(s[Len(s)])

\* float(str) on the file names of ContractNames: a non-empty run of decimal
\* digits converts, anything else raises ValueError.
CanParseFloat(s) == Len(s) > 0 /\ \A i \in 1..Len(s) : IsDigit(s[i])

(***************************************************************************)
(* Floats                                                                  *)
(***************************************************************************)
RECURSIVE GCD(_, _)
GCD(a, b) == IF b = 0 THEN a ELSE GCD(b, a % b)

Abs(x) == IF x < 0 THEN -x ELSE x

NaN == [nan |-> TRUE, n |-> 0, d |-> 1]

\* the float n/d (d > 0), in lowest terms
Rat(n, d) ==
    LET g == GCD(Abs(n), d)
    IN  [nan |-> FALSE, n |-> n \div g, d |-> d \div g]

Num(n) == Rat(n, 1)

\* Python's <, <=, == on floats: every comparison with NaN is False.
FLt(a, b) == ~a.nan /\ ~b.nan /\ a.n * b.d < b.n * a.d

FLe(a, b) == ~a.nan /\ ~b.nan /\ a.n * b.d <= b.n * a.d

FEq(a, b) == ~a.nan /\ ~b.nan /\ a.n * b.d = b.n * a.d

FAdd(a, b) ==
    IF a.nan \/ b.nan THEN NaN ELSE Rat(a.n * b.d + b.n * a.d, a.d * b.d)

\* a / k and a * k for an integer k > 0
FDivInt(a, k) == IF a.nan THEN NaN ELSE Rat(a.n, a.d * k)

FMulInt(a, k) == IF a.nan THEN NaN ELSE Rat(a.n * k, a.d)

(***************************************************************************)
(* Python built-ins used by analyze_contracts                              *)
(***************************************************************************)
Reverse(s) == [i \in 1..Len(s) |-> s[Len(s) + 1 - i]]

Identity(n) == [i \in 1..n |-> i]

RECURSIVE RunEnd(_, _, _, _)
\* count_run: the run that starts the list goes on while the comparison
\* "next < previous" keeps the answer it gave for the first pair.
RunEnd(keys, ord, desc, n) ==
    IF n < Len(ord) /\ (FLt(keys[ord[n + 1]], keys[ord[n]]) <=> desc)
    THEN RunEnd(keys, ord, desc, n + 1)
    ELSE n

RECURSIVE BinPos(_, _, _, _, _)
\* binarysort's search: the slot of pivot among the first r sorted items
\* (l and r count from 0, as in the C code).
BinPos(keys, ord, pivot, l, r) ==
    IF l >= r THEN l
    ELSE LET p == l + ((r - l) \div 2)
         IN  IF FLt(keys[pivot], keys[ord[p + 1]])
             THEN BinPos(keys, ord, pivot, l, p)
             ELSE BinPos(keys, ord, pivot, p + 1, r)

RECURSIVE BinarySort(_, _, _)
\* binarysort: items 0..start-1 are sorted, the rest are inserted in turn.
BinarySort(keys, ord, start) ==
    IF start >= Len(ord) THEN ord
    ELSE LET pivot == ord[start + 1]
             l == BinPos(keys, ord, pivot, 0, start)
             moved == SubSeq(ord, 1, l) \o <<pivot>> \o SubSeq(ord, l + 1, start)
                          \o SubSeq(ord, start + 2, Len(ord))
         IN  BinarySort(keys, moved, start + 1)

\* list.sort / sorted on fewer than 64 items whose sort keys are the floats
\* keys[1..n]: the positions of the items in their sorted order.  Only "<" is
\* used, so keys that hold NaN are placed as the comparisons happen to fall.
PySortOrder(keys, reverse) ==
    LET n == Len(keys)
        first == IF reverse THEN Reverse(Identity(n)) ELSE Identity(n)
        desc == FLt(keys[first[2]], keys[first[1]])
        run == RunEnd(keys, first, desc, 2)
        runFixed == IF desc
                    THEN Reverse(SubSeq(first, 1, run)) \o SubSeq(first, run + 1, n)
                    ELSE first
        done == BinarySort(keys, runFixed, run)
    IN  IF n < 2 THEN Identity(n)
        ELSE IF reverse THEN Reverse(done) ELSE done

\* sorted(discounts)
Sorted(discounts) ==
    LET ord == PySortOrder(discounts, FALSE)
    IN  [i \in 1..Len(discounts) |-> discounts[ord[i]]]

RECURSIVE PyMin(_)
\* min(list): a later item replaces the current one only if it is < it.
PyMin(s) ==
    IF Len(s) = 1 THEN s[1]
    ELSE LET cur == PyMin(SubSeq(s, 1, Len(s) - 1))
         IN  IF FLt(s[Len(s)], cur) THEN s[Len(s)] ELSE cur

RECURSIVE PyMax(_)
\* max(list): a later item replaces the current one only if it is > it.
PyMax(s) ==
    IF Len(s) = 1 THEN s[1]
    ELSE LET cur == PyMax(SubSeq(s, 1, Len(s) - 1))
         IN  IF FLt(cur, s[Len(s)]) THEN s[Len(s)] ELSE cur

RECURSIVE FSum(_)
FSum(s) == IF Len(s) = 0 THEN Num(0) ELSE FAdd(FSum(SubSeq(s, 1, Len(s) - 1)), s[Len(s)])

\* statistics.mean(list) of a non-empty list
Mean(s) == FDivInt(FSum(s), Len(s))

\* seq[:k]
SliceTo(s, k) ==
    LET stop == IF k >= 0
                THEN (IF k < Len(s) THEN k ELSE Len(s))
                ELSE (IF Len(s) + k > 0 THEN Len(s) + k ELSE 0)
    IN  SubSeq(s, 1, stop)

\* f"{x:.2f}": x rounded to two decimals, as the number of hundredths
\* (round-half-even on the exact value), or nan.
Fixed2(x) ==
    IF x.nan THEN [nan |-> TRUE, hundredths |-> 0]
    ELSE LET num == x.n * 100
             q == num \div x.d
             rem == num - q * x.d
             up == \/ 2 * rem > x.d
                   \/ (2 * rem = x.d /\ q % 2 = 1)
         IN  [nan |-> FALSE, hundredths |-> IF up THEN q + 1 ELSE q]

(***************************************************************************)
(* normalize_discount and the row coercion                                 *)
(***************************************************************************)
\* A faulty normalisation that also divides the value 100 itself; C9 tells it
\* from normalize_discount.
normalize_discount_from_100(discount) ==
    IF FLe(Num(100), discount) THEN FDivInt(discount, 100) ELSE discount

normalize_discount(discount) ==
    IF FLt(Num(100), discount) THEN FDivInt(discount, 100) ELSE discount

\* float(row[current_col]): what it raises ("" for nothing) and its value.
\* An empty spreadsheet cell is read by pandas as NaN, which float() accepts.
CoerceFloat(cell) ==
    CASE cell.kind = "number" -> [raises |-> "", value |-> cell.value]
      [] cell.kind = "empty" -> [raises |-> "", value |-> NaN]
      [] cell.kind = "text" -> [raises |-> "ValueError", value |-> NaN]
      [] cell.kind = "timestamp" -> [raises |-> "TypeError", value |-> NaN]

FMul(a, b) == IF a.nan \/ b.nan THEN NaN ELSE Rat(a.n * b.n, a.d * b.d)

RECURSIVE SumInts(_)
SumInts(s) == IF Len(s) = 0 THEN 0 ELSE SumInts(SubSeq(s, 1, Len(s) - 1)) + s[Len(s)]

(***************************************************************************)
(* Inputs: uploads, requests, the carrier directory, spreadsheet rows      *)
(***************************************************************************)
\* "shipments.xlsx" and "shipments.csv", shortened
UploadNames == { <<"s", ".", "x", "l", "s", "x">>, <<"s", ".", "c", "s", "v">> }

\* An uploaded file: its name, whether pandas can read it as a table, whether
\* the table has a total_charge column, and that column.
Uploads ==
    [filename : UploadNames, readable : {TRUE}, has_total_charge : {TRUE},
     total_charge : {<<60, 40>>, <<>>}]
    \cup [filename : {<<"s", ".", "x", "l", "s", "x">>}, readable : {TRUE},
          has_total_charge : {FALSE}, total_charge : {<<>>}]
    \cup [filename : {<<"s", ".", "x", "l", "s", "x">>}, readable : {FALSE},
          has_total_charge : {FALSE}, total_charge : {<<>>}]

\* SearchRequest; tolerance in percent
Requests == [carrier : {"UPS"}, tolerance : {0, 10}, top_n : -1..3]

\* Names a carrier directory may hold.
ContractNames ==
    { <<"U", "P", "S", "_", "9", "5", ".", "x", "l", "s", "x">>,
      <<"U", "P", "S", "_", "1", "2", "0", ".", "x", "l", "s", "x">>,
      <<"U", "P", "S", "_", "9", "0", ".", "x", "l", "s", "x">>,
      <<"U", "P", "S", "_", "1", "1", "0", ".", "x", "l", "s", "x">>,
      <<"U", "P", "S", "_", "1", "0", "0", "_", "v", "2", ".", "x", "l", "s", "x">>,
      <<"U", "P", "S", "_", "a", "b", "c", ".", "x", "l", "s", "x">>,
      <<"n", "o", "t", "e", "s", ".", "x", "l", "s", "x">>,
      <<"r", "e", "a", "d", "m", "e", ".", "t", "x", "t">> }

Services == {"GROUND", "NEXT DAY AIR"}

\* Contents of a discount cell as pandas hands it over.
Cells ==
    { [kind |-> "number", value |-> Num(100)],
      [kind |-> "number", value |-> Num(1850)],
      [kind |-> "empty", value |-> NaN],
      [kind |-> "text", value |-> NaN],
      [kind |-> "timestamp", value |-> NaN] }

Rows == [service : Services, cell : Cells]

NoRow == [service |-> "", cell |-> [kind |-> "none", value |-> NaN]]

NoDf == [name |-> <<>>, has_service_col |-> FALSE, has_current_col |-> FALSE]

NoExc == [type |-> "", msg |-> <<>>]

NoRequest == [carrier |-> "", tolerance |-> 0, top_n |-> 0]

NoUpload ==
    [filename |-> <<>>, readable |-> FALSE, has_total_charge |-> FALSE,
     total_charge |-> <<>>]

(***************************************************************************)
(* analyze_contracts, piece by piece                                       *)
(***************************************************************************)
\* lower_spend = target_spend * (1 - tolerance)
LowerSpend(target, tolerance) == FMul(target, Rat(100 - tolerance, 100))

\* upper_spend = target_spend * (1 + tolerance)
UpperSpend(target, tolerance) == FMul(target, Rat(100 + tolerance, 100))

\* A faulty range test that leaves out the lower edge of the band; C1
\* tells it from InSpendRange.
InSpendRangeOpenBelow(lower, spend, upper) == FLt(lower, spend) /\ FLe(spend, upper)

\* lower_spend <= contract_spend <= upper_spend
InSpendRange(lower, spend, upper) == FLe(lower, spend) /\ FLe(spend, upper)

\* filename.split('_')[1].replace('.xlsx', ''): the token, or the IndexError
SpendToken(name) ==
    LET tokens == Split(name, "_")
    IN  IF Len(tokens) < 2
        THEN [raises |-> "IndexError", token |-> <<>>]
        ELSE [raises |-> "", token |-> Remove(tokens[2], XLSX)]

HasService(sd, service) == \E i \in 1..Len(sd) : sd[i].service = service

\* if service not in service_discounts: service_discounts[service] = []
\* service_discounts[service].append(discount)
AppendDiscount(sd, service, discount) ==
    IF HasService(sd, service)
    THEN [i \in 1..Len(sd) |->
             IF sd[i].service = service
             THEN [sd[i] EXCEPT !.discounts = Append(@, discount)]
             ELSE sd[i]]
    ELSE Append(sd, [service |-> service, discounts |-> <<discount>>])

\* the body of "for _, row in df.iterrows()" for one row whose columns exist
AggregateRow(sd, r) ==
    LET c == CoerceFloat(r.cell)
    IN  IF c.raises \in {"ValueError", "TypeError"}
        THEN sd
        ELSE AppendDiscount(sd, r.service, normalize_discount(c.value))

StatsOf(entry) ==
    [service |-> entry.service,
     avg_discount |-> Mean(entry.discounts),
     min_discount |-> PyMin(entry.discounts),
     max_discount |-> PyMax(entry.discounts),
     contract_count |-> Len(entry.discounts),
     discount_values |-> Sorted(entry.discounts)]

\* service_stats: one entry per service level whose list is not empty
ServiceStats(sd) ==
    LET kept == SelectSeq(sd, LAMBDA e : Len(e.discounts) > 0)
    IN  [i \in 1..Len(kept) |-> StatsOf(kept[i])]

\* dict(sorted(service_stats.items(), key=avg_discount, reverse=True)[:top_n])
RankTop(stats, top_n) ==
    LET keys == [i \in 1..Len(stats) |-> stats[i].avg_discount]
        ord == PySortOrder(keys, TRUE)
        ranked == [i \in 1..Len(stats) |-> stats[ord[i]]]
    IN  SliceTo(ranked, top_n)

\* format_results: per service level the displayed numbers
FormatEntry(data) ==
    [service |-> data.service,
     avg_discount |-> Fixed2(FMulInt(data.avg_discount, 100)),
     min_discount |-> Fixed2(FMulInt(data.min_discount, 100)),
     max_discount |-> Fixed2(FMulInt(data.max_discount, 100)),
     contract_count |-> data.contract_count,
     discount_values |-> [i \in 1..Len(data.discount_values) |->
                             Fixed2(FMulInt(data.discount_values[i], 100))]]

FormatResults(stats) == [i \in 1..Len(stats) |-> FormatEntry(stats[i])]

(***************************************************************************)
(* State                                                                   *)
(***************************************************************************)
VARIABLES
    pc,                 \* where the request handler stands
    upload,             \* file: UploadFile
    request,            \* request: SearchRequest
    target_spend,       \* analyze_contracts_endpoint's target_spend
    lower_spend,        \* analyze_contracts' locals ...
    upper_spend,
    filename,
    contract_spend,
    df,
    row,
    service_discounts,
    service_stats,
    sorted_services,    \* ... and its return value (results)
    nfiles,             \* directory entries listed so far
    nrows,              \* rows iterated so far
    exc,                \* the exception in flight
    status,             \* HTTP status of the response, 0 while there is none
    detail,             \* HTTPException detail
    body                \* the formatted results of a 200 response

vars ==
    <<pc, upload, request, target_spend, lower_spend, upper_spend, filename,
      contract_spend, df, row, service_discounts, service_stats,
      sorted_services, nfiles, nrows, exc, status, detail, body>>

locals ==
    <<lower_spend, upper_spend, filename, contract_spend, df, row,
      service_discounts, service_stats, sorted_services, nfiles, nrows>>

response == <<status, detail, body>>

Init ==
    /\ pc = "idle"
    /\ upload = NoUpload
    /\ request = NoRequest
    /\ target_spend = NaN
    /\ lower_spend = NaN
    /\ upper_spend = NaN
    /\ filename = <<>>
    /\ contract_spend = NaN
    /\ df = NoDf
    /\ row = NoRow
    /\ service_discounts = <<>>
    /\ service_stats = <<>>
    /\ sorted_services = <<>>
    /\ nfiles = 0
    /\ nrows = 0
    /\ exc = NoExc
    /\ status = 0
    /\ detail = <<>>
    /\ body = <<>>

\* raise: the exception leaves the function it is raised in
Raise(type, msg) ==
    /\ exc' = [type |-> type, msg |-> msg]
    /\ pc' = "raised"

\* A request arrives: every local starts unset.  Lines 102-104: the
\* extension check.
Receive(u, r) ==
    /\ pc = "idle"
    /\ upload' = u
    /\ request' = r
    /\ target_spend' = NaN
    /\ lower_spend' = NaN
    /\ upper_spend' = NaN
    /\ filename' = <<>>
    /\ contract_spend' = NaN
    /\ df' = NoDf
    /\ row' = NoRow
    /\ service_discounts' = <<>>
    /\ service_stats' = <<>>
    /\ sorted_services' = <<>>
    /\ nfiles' = 0
    /\ nrows' = 0
    /\ exc' = NoExc
    /\ body' = <<>>
    /\ IF ~EndsWith(u.filename, XLSX)
       THEN /\ status' = 400
            /\ detail' = <<"Only .xlsx files are supported.">>
            /\ pc' = "done"
       ELSE /\ status' = 0
            /\ detail' = <<>>
            /\ pc' = "extract"

\* extract_target_spend, lines 24-32
ExtractTargetSpend ==
    /\ pc = "extract"
    /\ IF ~upload.readable
       THEN /\ Raise("ValueError",
                     <<"Error processing the file: ", "File is not a zip file">>)
            /\ UNCHANGED target_spend
       ELSE IF ~upload.has_total_charge
       THEN /\ Raise("ValueError",
                     <<"Error processing the file: ",
                       "The Excel file must contain a 'total_charge' column.">>)
            /\ UNCHANGED target_spend
       ELSE /\ target_spend' = Num(SumInts(upload.total_charge))
            /\ pc' = "analyze"
            /\ UNCHANGED exc
    /\ UNCHANGED <<upload, request, locals, response>>

\* analyze_contracts up to the os.listdir call, lines 52-60
BeginAnalyze(dir_exists) ==
    /\ pc = "analyze"
    /\ lower_spend' = LowerSpend(target_spend, request.tolerance)
    /\ upper_spend' = UpperSpend(target_spend, request.tolerance)
    /\ service_discounts' = <<>>
    /\ IF dir_exists
       THEN pc' = "scan" /\ UNCHANGED exc
       ELSE Raise("FileNotFoundError", <<"No such file or directory">>)
    /\ UNCHANGED <<upload, request, target_spend, filename, contract_spend, df,
                   row, service_stats, sorted_services, nfiles, nrows, response>>

\* What pd.read_excel may return for a contract file: whether the sheet has
\* the service-level column and the carrier's discount column.
Sheets ==
    { sh \in [has_service_col : BOOLEAN, has_current_col : BOOLEAN] :
         sh.has_service_col \/ sh.has_current_col }

\* One turn of "for filename in os.listdir(carrier_path)", lines 60-66; the
\* sheet behind the name is read only when the spend is in range.
NextFile(name) ==
    /\ pc = "scan"
    /\ nfiles < MaxFiles
    /\ filename' = name
    /\ nfiles' = nfiles + 1
    /\ IF ~EndsWith(name, XLSX)
       THEN /\ pc' = "scan"
            /\ UNCHANGED <<contract_spend, df, exc>>
       ELSE LET t == SpendToken(name)
            IN  IF t.raises # ""
                THEN /\ Raise(t.raises, <<"list index out of range">>)
                     /\ UNCHANGED <<contract_spend, df>>
                ELSE IF ~CanParseFloat(t.token)
                THEN /\ Raise("ValueError",
                              <<"could not convert string to float: ", t.token>>)
                     /\ UNCHANGED <<contract_spend, df>>
                ELSE /\ contract_spend' = Num(DecimalValue(t.token))
                     /\ UNCHANGED exc
                     /\ IF InSpendRange(lower_spend, contract_spend', upper_spend)
                        THEN /\ \E sheet \in Sheets :
                                   df' = [name |-> name,
                                          has_service_col |-> sheet.has_service_col,
                                          has_current_col |-> sheet.has_current_col]
                             /\ pc' = "rows"
                        ELSE /\ pc' = "scan"
                             /\ UNCHANGED df
    /\ UNCHANGED <<upload, request, target_spend, lower_spend, upper_spend, row,
                   service_discounts, service_stats, sorted_services, nrows,
                   response>>

\* One turn of "for _, row in df.iterrows()", lines 69-78
NextRow(r) ==
    /\ pc = "rows"
    /\ nrows < MaxRows
    /\ row' = r
    /\ nrows' = nrows + 1
    /\ IF ~df.has_service_col
       THEN /\ Raise("KeyError", <<"'DOMESTIC AIR SERVICE LEVEL'">>)
            /\ UNCHANGED service_discounts
       ELSE IF ~df.has_current_col
       THEN /\ Raise("KeyError", <<"'CURRENT UPS'">>)
            /\ UNCHANGED service_discounts
       ELSE /\ service_discounts' = AggregateRow(service_discounts, r)
            /\ UNCHANGED <<pc, exc>>
    /\ UNCHANGED <<upload, request, target_spend, lower_spend, upper_spend,
                   filename, contract_spend, df, service_stats, sorted_services,
                   nfiles, response>>

\* df.iterrows() is exhausted: back to the directory loop
EndOfFile ==
    /\ pc = "rows"
    /\ pc' = "scan"
    /\ UNCHANGED <<upload, request, target_spend, locals, exc, response>>

\* os.listdir is exhausted; lines 80-90 build service_stats
ComputeStats ==
    /\ pc = "scan"
    /\ service_stats' = ServiceStats(service_discounts)
    /\ pc' = "rank"
    /\ UNCHANGED <<upload, request, target_spend, lower_spend, upper_spend,
                   filename, contract_spend, df, row, service_discounts,
                   sorted_services, nfiles, nrows, exc, response>>

\* lines 92-99: rank, truncate, return
Rank ==
    /\ pc = "rank"
    /\ sorted_services' = RankTop(service_stats, request.top_n)
    /\ pc' = "format"
    /\ UNCHANGED <<upload, request, target_spend, lower_spend, upper_spend,
                   filename, contract_spend, df, row, service_discounts,
                   service_stats, nfiles, nrows, exc, response>>

\* line 114: return format_results(results)
Format ==
    /\ pc = "format"
    /\ body' = FormatResults(sorted_services)
    /\ status' = 200
    /\ pc' = "done"
    /\ UNCHANGED <<upload, request, target_spend, locals, exc, detail>>

\* A faulty handler that answers an exception with whatever had been
\* aggregated so far; C7 tells it from Catch.
CatchReturningPartial ==
    /\ pc = "raised"
    /\ status' = 200
    /\ detail' = exc.msg
    /\ body' = FormatResults(ServiceStats(service_discounts))
    /\ pc' = "done"
    /\ UNCHANGED <<upload, request, target_spend, locals, exc>>

\* lines 115-116: except Exception as e: raise HTTPException(500, str(e))
Catch ==
    /\ pc = "raised"
    /\ status' = 500
    /\ detail' = exc.msg
    /\ pc' = "done"
    /\ UNCHANGED <<upload, request, target_spend, locals, exc, body>>

Next ==
    \/ \E u \in Uploads, r \in Requests : Receive(u, r)
    \/ ExtractTargetSpend
    \/ \E dir_exists \in BOOLEAN : BeginAnalyze(dir_exists)
    \/ \E name \in ContractNames : NextFile(name)
    \/ \E r \in Rows : NextRow(r)
    \/ EndOfFile
    \/ ComputeStats
    \/ Rank
    \/ Format
    \/ Catch

Spec == Init /\ [][Next]_vars

(***************************************************************************)
(* Properties                                                              *)
(***************************************************************************)
Min(a, b) == IF a < b THEN a ELSE b

\* The request's target spend and tolerance as integers.
TargetInt == SumInts(upload.total_charge)

\* The name is an .xlsx name whose second "_" token is a number.
EncodesSpend(name) ==
    LET t == SpendToken(name)
    IN  EndsWith(name, XLSX) /\ t.raises = "" /\ CanParseFloat(t.token)

SpendOf(name) == DecimalValue(SpendToken(name).token)

\* target*(1 - tol) <= spend <= target*(1 + tol), tol in percent, in integers
InBand(spend) ==
    /\ TargetInt * (100 - request.tolerance) <= 100 * spend
    /\ 100 * spend <= TargetInt * (100 + request.tolerance)

LastOf(s) == s[Len(s)]

DiscountsOf(sd, service) ==
    LET i == CHOOSE j \in 1..Len(sd) : sd[j].service = service
    IN  sd[i].discounts

\* For each name a directory may hold: the spend it encodes, or -1 if it is
\* not an .xlsx name that encodes one.
EncodedSpend ==
    [name \in ContractNames |-> IF EncodesSpend(name) THEN SpendOf(name) ELSE 0 - 1]

\* C1: a listed .xlsx file whose name encodes a spend has its sheet read (and so
\* its rows aggregated) if and only if the spend lies in the band
\* [target*(1-tolerance), target*(1+tolerance)], both ends included; rows are
\* only ever iterated from a sheet whose spend is in the band.
C1_BandSelection ==
    /\ (filename # <<>> /\ EncodedSpend[filename] >= 0)
          => ((df.name = filename) <=> InBand(EncodedSpend[filename]))
    /\ (df # NoDf)
          => (EncodedSpend[df.name] >= 0 /\ InBand(EncodedSpend[df.name]))
    /\ (service_discounts # <<>>) => (df # NoDf)

\* C1 witness: the file on the lower edge of the band (90 for target 100 and
\* tolerance 10%) was read and a row of it was aggregated.
C1_Witness ==
    /\ pc = "rows"
    /\ request.tolerance = 10
    /\ TargetInt = 100
    /\ EncodedSpend[filename] = 90
    /\ df.name = filename
    /\ nfiles = 2
    /\ service_discounts # <<>>

Returned(service) == \E i \in 1..Len(sorted_services) : sorted_services[i].service = service

\* C2: the result holds min(top_n, number of non-empty service groups) service
\* levels (none when top_n <= 0), no returned level is ranked above one with a
\* strictly higher average, and no level left out has a strictly higher average
\* than a returned one.
C2_TopNCountAndOrder ==
    (pc = "done" /\ status = 200) =>
        /\ Len(sorted_services) =
              (IF request.top_n <= 0 THEN 0
               ELSE Min(request.top_n, Len(service_stats)))
        /\ \A i, j \in 1..Len(sorted_services) :
              i < j => ~FLt(sorted_services[i].avg_discount,
                            sorted_services[j].avg_discount)
        /\ \A k \in 1..Len(service_stats), i \in 1..Len(sorted_services) :
              ~Returned(service_stats[k].service)
                 => ~FLt(sorted_services[i].avg_discount,
                         service_stats[k].avg_discount)

\* C3: with top_n <= 0 the result set is empty.
C3_NonPositiveTopNIsEmpty ==
    (pc = "done" /\ status = 200 /\ request.top_n <= 0) =>
        (sorted_services = <<>> /\ body = <<>>)

\* C4: an .xlsx name that encodes no spend is skipped: the request does not fail
\* on it.
C4_MalformedNameSkipped ==
    (filename # <<>> /\ EndsWith(filename, XLSX) /\ ~EncodesSpend(filename))
        => (pc # "raised" /\ status # 500)

\* C5: a row whose discount cell is not a number (text, another type, or a
\* missing cell) leaves service_discounts as it was, and the loop goes on.
C5_InvalidCellSkipped ==
    [][(/\ pc = "rows"
        /\ nrows' = nrows + 1
        /\ df.has_service_col /\ df.has_current_col
        /\ row'.cell.kind \in {"text", "timestamp", "empty"})
          => (service_discounts' = service_discounts /\ pc' = "rows")]_vars

\* C6: a discount cell d > 100 (1850) is stored as d/100 (18.5) and displayed as
\* d/100 to two decimals (18.50).
C6_DisplayedValue ==
    (/\ pc = "done" /\ status = 200
     /\ nrows = 1
     /\ row.cell.kind = "number" /\ FLt(Num(100), row.cell.value)
     /\ Len(body) = 1)
        => /\ sorted_services[1].discount_values = <<FDivInt(row.cell.value, 100)>>
           /\ body[1].discount_values = <<Fixed2(FDivInt(row.cell.value, 100))>>

\* C7: for an .xlsx upload an exception raised anywhere in the handler ends the
\* request with status 500 whose detail is the exception's message and with no
\* results; results are only returned with status 200 and no exception.
C7_FailureIsA500 ==
    /\ (pc = "done") => status \in {200, 400, 500}
    /\ (pc = "done" /\ exc # NoExc)
          => (status = 500 /\ detail = exc.msg /\ body = <<>>)
    /\ (status = 500) => (pc = "done" /\ exc # NoExc /\ body = <<>>)
    /\ (status = 200) => (exc = NoExc /\ detail = <<>>)
    /\ (pc = "raised") => (exc # NoExc /\ status = 0 /\ body = <<>>)
    /\ (pc = "done" /\ EndsWith(upload.filename, XLSX) /\ ~upload.has_total_charge)
          => status = 500

\* C7 witness: a KeyError raised in the middle of the aggregation, after a value
\* had been collected, ended as a 500 without results.
C7_Witness ==
    /\ pc = "done"
    /\ status = 500
    /\ exc.type = "KeyError"
    /\ service_discounts # <<>>
    /\ body = <<>>

\* Discounts on both sides of the threshold, and on it.
TestDiscounts ==
    { Num(0 - 5), Num(0), Rat(1, 2), Num(1), Num(50), Num(100), Rat(10001, 100),
      Num(101), Num(1850), NaN }

\* normalize_discount on TestDiscounts: d/100 above 100, d itself otherwise
NormalizeTableHolds ==
    \A x \in TestDiscounts :
        normalize_discount(x) =
            (IF ~x.nan /\ x.n > 100 * x.d THEN Rat(x.n, x.d * 100) ELSE x)

\* C9: normalize_discount is d/100 for d > 100 and d for d <= 100, and the value
\* a row appends to its service level's list is normalize_discount of the
\* coerced cell.
C9_NormalizeThreshold ==
    /\ NormalizeTableHolds
    /\ (/\ pc \in {"rows", "scan"}
        /\ row # NoRow
        /\ row.cell.kind \in {"number", "empty"})
          => /\ HasService(service_discounts, row.service)
             /\ LastOf(DiscountsOf(service_discounts, row.service)) =
                   (IF ~row.cell.value.nan /\ row.cell.value.n > 100 * row.cell.value.d
                    THEN Rat(row.cell.value.n, row.cell.value.d * 100)
                    ELSE row.cell.value)

\* C9 witness: the cell 1850 was appended as 18.5, after the cell 100 had been
\* appended unchanged.
C9_Witness ==
    /\ pc = "rows"
    /\ row.cell = [kind |-> "number", value |-> Num(1850)]
    /\ DiscountsOf(service_discounts, row.service) = <<Num(100), Rat(37, 2)>>

\* C10: every returned service level has contract_count >= 1 equal to the
\* number of its discount_values, these are in ascending order, and
\* min_discount <= avg_discount <= max_discount; with one row in all,
\* avg_discount = min_discount = max_discount and contract_count = 1.
C10_StatsInvariant ==
    \A i \in 1..Len(sorted_services) :
        LET e == sorted_services[i]
        IN  /\ e.contract_count >= 1
            /\ e.contract_count = Len(e.discount_values)
            /\ \A j \in 1..(Len(e.discount_values) - 1) :
                  FLe(e.discount_values[j], e.discount_values[j + 1])
            /\ FLe(e.min_discount, e.avg_discount)
            /\ FLe(e.avg_discount, e.max_discount)
            /\ (nrows = 1) => /\ FEq(e.avg_discount, e.min_discount)
                              /\ FEq(e.avg_discount, e.max_discount)
                              /\ e.contract_count = 1

====
